---------------------------- MODULE Spec2Model ----------------------------
(***************************************************************************)
(* Formal-basis enumeration engine of nuskell                              *)
(* (src/nuskell/verifier/basis_finder.py).                                 *)
(*                                                                         *)
(* Species are small naturals so that Python's sorted() on lists of        *)
(* species names is the numeric order:                                     *)
(*     1 = "A", 2 = "B"   formal species                                   *)
(*     3 = "I", 4 = "J", 5 = "K"   intermediate species                    *)
(* A Python list is a sequence, a reaction [reactants, products] is a pair *)
(* of sequences, a pathway and a CRN are sequences of reactions.  The code *)
(* is Python 2: filter() on a list returns a list.                         *)
(***************************************************************************)
EXTENDS Integers, Sequences, FiniteSets, TLC

VARIABLES
    pc,      \* position of the run that is being modelled
    a, b,    \* arguments of contained(a, b)
    p,       \* a pathway
    S0,      \* the state a replay of p starts from
    S,       \* the current state of the replay / of tidy's caller
    k,       \* number of reactions of p replayed so far
    out,     \* the value the operation returned
    crn,     \* the CRN (a list of reactions) an operation works on
    queue,   \* tidy: states still to expand
    mem,     \* tidy: every projected state seen so far
    optimize,       \* find_basis: its optimize argument
    intermediates,  \* find_basis: the species of the CRN that are not formal
    divs,           \* find_basis: the modules find_modules returned
    e,              \* find_basis: number of the module being verified
    basis,          \* find_basis: the pairs collected so far
    result,         \* find_basis: what it returned (or raised)
    mod,            \* enumerate_basis: its crn argument
    nonwastes,      \* find_basis: non-waste intermediates of the module
    linear,         \* find_basis: whether nonwastes is passed as nonw
    done,           \* global done: the abort flag
    ccheck,         \* global ccheck: final states already checked for tidiness
    w_max, i_max,   \* enumerate_basis: the current bounds
    ret,            \* global ret: the signatures of this pass
    ebasis,         \* global ebasis: the elementary basis of this pass
    pidx            \* enumerate_pathways: the pathway p of the innermost
                    \* call, as the positions of its reactions in mod

funVars == <<a, b, p, S0, S, k, out>>
tidyVars == <<crn, queue, mem>>
findVars == <<optimize, intermediates, divs, e, basis, result, mod, nonwastes, linear>>
searchVars == <<done, ccheck, w_max, i_max, ret, ebasis, pidx>>
drvVars == <<findVars, searchVars>>
vars == <<pc, funVars, tidyVars, drvVars>>

(***************************************************************************)
(* Bounds of the model and the inputs it draws from.                       *)
(***************************************************************************)
MaxLen == 3      \* longest list handed to contained
MaxPath == 3     \* longest pathway handed to the pathway engine
MaxInit == 3     \* largest arbitrary start state of a replay
MaxCrn == 2      \* most reactions in a CRN handed to tidy
MaxTidyLen == 8  \* largest projected state tidy's search expands
MaxMod == 3      \* most reactions in a CRN handed to find_modules
MaxDrv == 2      \* most reactions in a CRN handed to find_basis
MaxW == 4        \* largest w_max a search pass is run with
MaxI == 3        \* largest i_max a search pass is run with

Species == {1, 2, 3, 4, 5}
Formals == {1, 2}

\* Reactions the pathways are built from:  A -> I,  I -> B,  I -> I + I,
\* I + I -> J,  J + A -> B (reactants listed unsorted),  I -> (nothing),
\* A -> B,  I -> A.
PathRxns ==
    { << <<1>>, <<3>> >>, << <<3>>, <<2>> >>, << <<3>>, <<3, 3>> >>,
      << <<3, 3>>, <<4>> >>, << <<4, 1>>, <<2>> >>, << <<3>>, <<>> >>,
      << <<1>>, <<2>> >>, << <<3>>, <<1>> >> }

RECURSIVE SeqsUpTo(_, _)
SeqsUpTo(X, n) ==
    IF n = 0 THEN {<<>>}
    ELSE LET shorter == SeqsUpTo(X, n - 1)
         IN  shorter \cup {Append(s, x) : s \in {t \in shorter : Len(t) = n - 1}, x \in X}

(***************************************************************************)
(* Python list primitives.                                                 *)
(***************************************************************************)
\* x in s
In(x, s) == \E i \in 1..Len(s) : s[i] = x

\* s.remove(x) for a list that holds x: the first occurrence goes
remove(s, x) ==
    LET i == CHOOSE j \in 1..Len(s) : s[j] = x /\ \A h \in 1..(j - 1) : s[h] # x
    IN  SubSeq(s, 1, i - 1) \o SubSeq(s, i + 1, Len(s))

\* Python's order on values nested d levels deep: numbers at depth 0,
\* lists compared lexicographically above that
RECURSIVE leq(_, _, _)
leq(d, x, y) ==
    IF d = 0 THEN x <= y
    ELSE IF x = <<>> THEN TRUE
    ELSE IF y = <<>> THEN FALSE
    ELSE IF Head(x) = Head(y) THEN leq(d, Tail(x), Tail(y))
    ELSE leq(d - 1, Head(x), Head(y))

RECURSIVE insert(_, _, _)
insert(d, x, s) ==
    IF s = <<>> THEN <<x>>
    ELSE IF leq(d, x, Head(s)) THEN <<x>> \o s
    ELSE <<Head(s)>> \o insert(d, x, Tail(s))

\* sorted(l) for a list of values nested d levels deep
RECURSIVE sorted_nested(_, _)
sorted_nested(d, l) ==
    IF l = <<>> THEN <<>> ELSE insert(d, Head(l), sorted_nested(d, Tail(l)))

\* sorted(s) for a list of species
sorted(s) == sorted_nested(0, s)

\* what a failed list.remove / a failed assert leaves instead of a value
ValueError == <<-1>>
AssertionError == <<-2>>
\* final_state's "infeasible" marker
None == <<0>>

(***************************************************************************)
(* Multiset / state algebra.                                               *)
(***************************************************************************)
formal(s, fs) == SelectSeq(s, LAMBDA x : x \in fs)

intermediate(s, fs) == SelectSeq(s, LAMBDA x : x \notin fs)

RECURSIVE remove_each(_, _)
remove_each(s, xs) ==
    IF xs = <<>> THEN s
    ELSE IF ~In(Head(xs), s) THEN ValueError
    ELSE remove_each(remove(s, Head(xs)), Tail(xs))

next_state(s, rxn) ==
    LET t == remove_each(s, rxn[1])
    IN  IF t = ValueError THEN ValueError ELSE sorted(t \o rxn[2])

\* mutant: a reactant found in the pool is not taken out of it
RECURSIVE mis_reactants_keep(_, _, _)
mis_reactants_keep(R, initial, current) ==
    IF R = <<>> THEN <<initial, current>>
    ELSE IF In(Head(R), current)
         THEN mis_reactants_keep(Tail(R), initial, current)
         ELSE mis_reactants_keep(Tail(R), Append(initial, Head(R)), current)

\* mutant: every reactant is charged to the initial state
RECURSIVE mis_reactants_all(_, _, _)
mis_reactants_all(R, initial, current) ==
    IF R = <<>> THEN <<initial, current>>
    ELSE mis_reactants_all(Tail(R), Append(initial, Head(R)), current)

RECURSIVE mis_reactants(_, _, _)
mis_reactants(R, initial, current) ==
    IF R = <<>> THEN <<initial, current>>
    ELSE IF In(Head(R), current)
         THEN mis_reactants(Tail(R), initial, remove(current, Head(R)))
         ELSE mis_reactants(Tail(R), Append(initial, Head(R)), current)

RECURSIVE mis_loop(_, _, _)
mis_loop(pathway, initial, current) ==
    IF pathway = <<>> THEN initial
    ELSE LET ic == mis_reactants(Head(pathway)[1], initial, current)
         IN  mis_loop(Tail(pathway), ic[1], ic[2] \o Head(pathway)[2])

minimal_initial_state(pathway) == sorted(mis_loop(pathway, <<>>, <<>>))

RECURSIVE contained_helper(_, _)
contained_helper(x, y) ==
    IF Len(x) = 0 THEN TRUE
    ELSE IF Len(y) < Len(x) THEN FALSE
    ELSE IF x[1] = y[1] THEN contained_helper(Tail(x), Tail(y))
    ELSE contained_helper(x, Tail(y))

\* mutant: the merge scan runs on the lists as given
contained_unsorted(x, y) == contained_helper(x, y)

contained(x, y) == contained_helper(sorted(x), sorted(y))

RECURSIVE fs_reactants(_, _)
fs_reactants(c, R) ==
    IF R = <<>> THEN c
    ELSE IF ~In(Head(R), c) THEN None
    ELSE fs_reactants(remove(c, Head(R)), Tail(R))

RECURSIVE fs_loop(_, _)
fs_loop(pathway, c) ==
    IF pathway = <<>> THEN sorted(c)
    ELSE LET c1 == fs_reactants(c, Head(pathway)[1])
         IN  IF c1 = None THEN None
             ELSE fs_loop(Tail(pathway), c1 \o Head(pathway)[2])

final_state(pathway, init) == fs_loop(pathway, init)

\* mutant: one non-waste species already fails the test
RECURSIVE lc_loop_none(_, _, _)
lc_loop_none(path, init, nonw) ==
    IF Len(SelectSeq(init, LAMBDA x : x \in nonw)) > 0 THEN "False"
    ELSE IF path = <<>> THEN "True"
    ELSE LET i1 == fs_reactants(init, Head(path)[1])
         IN  IF i1 = None THEN "AssertionError"
             ELSE lc_loop_none(Tail(path), i1 \o Head(path)[2], nonw)

\* "True", "False", or "AssertionError" when the assert of line 94 fails
RECURSIVE lc_loop(_, _, _)
lc_loop(path, init, nonw) ==
    IF Len(SelectSeq(init, LAMBDA x : x \in nonw)) > 1 THEN "False"
    ELSE IF path = <<>> THEN "True"
    ELSE LET i1 == fs_reactants(init, Head(path)[1])
         IN  IF i1 = None THEN "AssertionError"
             ELSE lc_loop(Tail(path), i1 \o Head(path)[2], nonw)

linearcheck(path, init, nonw) == lc_loop(path, init, nonw)

RECURSIVE sm_loop(_, _, _)
sm_loop(x, y, T) ==
    IF x = <<>> THEN T
    ELSE IF In(Head(x), y) THEN sm_loop(Tail(x), remove(y, Head(x)), T)
    ELSE sm_loop(Tail(x), y, Append(T, Head(x)))

setminus(x, y) == sm_loop(x, y, <<>>)

RECURSIVE rd_loop(_, _)
rd_loop(l, r) ==
    IF Len(l) > 1
    THEN rd_loop(Tail(l), IF l[1] # l[2] THEN Append(r, l[1]) ELSE r)
    ELSE Append(r, l[1])

\* remove_duplicates(l) for a list of values nested d levels deep
remove_duplicates(d, l) ==
    IF Len(l) = 0 THEN <<>> ELSE rd_loop(sorted_nested(d, l), <<>>)

formal_state(s, fs) == Len(formal(s, fs)) = Len(s)

\* mutant: only the first side's minimal initial state must be formal
RECURSIVE helper_onesided(_, _, _, _)
helper_onesided(p1, p2, remaining, fs) ==
    LET i1 == minimal_initial_state(p1)
        i2 == minimal_initial_state(p2)
    IN  IF ~formal_state(i1, fs) THEN <<>>
        ELSE IF Len(remaining) = 0
        THEN IF Len(p1) > 0 /\ Len(p2) > 0
             THEN << <<final_state(p1, i1), final_state(p2, i2)>> >>
             ELSE <<>>
        ELSE helper_onesided(Append(p1, Head(remaining)), p2, Tail(remaining), fs)
             \o helper_onesided(p1, Append(p2, Head(remaining)), Tail(remaining), fs)

\* mutant: the second branch is not taken while both sides are empty, as if
\* the two sides were interchangeable
RECURSIVE helper_halved(_, _, _, _)
helper_halved(p1, p2, remaining, fs) ==
    LET i1 == minimal_initial_state(p1)
        i2 == minimal_initial_state(p2)
    IN  IF ~formal_state(i1, fs) \/ ~formal_state(i2, fs) THEN <<>>
        ELSE IF Len(remaining) = 0
        THEN IF Len(p1) > 0 /\ Len(p2) > 0
             THEN << <<final_state(p1, i1), final_state(p2, i2)>> >>
             ELSE <<>>
        ELSE helper_halved(Append(p1, Head(remaining)), p2, Tail(remaining), fs)
             \o (IF Len(p1) = 0 /\ Len(p2) = 0 THEN <<>>
                 ELSE helper_halved(p1, Append(p2, Head(remaining)), Tail(remaining), fs))

RECURSIVE helper(_, _, _, _)
helper(p1, p2, remaining, fs) ==
    LET i1 == minimal_initial_state(p1)
        i2 == minimal_initial_state(p2)
    IN  IF ~formal_state(i1, fs) \/ ~formal_state(i2, fs) THEN <<>>
        ELSE IF Len(remaining) = 0
        THEN IF Len(p1) > 0 /\ Len(p2) > 0
             THEN << <<final_state(p1, i1), final_state(p2, i2)>> >>
             ELSE <<>>
        ELSE helper(Append(p1, Head(remaining)), p2, Tail(remaining), fs)
             \o helper(p1, Append(p2, Head(remaining)), Tail(remaining), fs)

decompose(path, fs) ==
    remove_duplicates(2, sorted_nested(2, helper(<<>>, <<>>, path, fs)))

(***************************************************************************)
(* Regularity and closure analyser, width.                                 *)
(***************************************************************************)
RECURSIVE fc_loop(_, _, _, _)
fc_loop(q, s, T, fs) ==
    IF q = <<>> THEN sorted(T)
    ELSE LET s1 == next_state(s, Head(q))
         IN  fc_loop(Tail(q), s1, T \o setminus(formal(s1, fs), T), fs)

\* mutant: the formal species of the initial state are left out
formal_closure_later(q, fs) ==
    LET initial == minimal_initial_state(q)
    IN  fc_loop(q, initial, <<>>, fs)

formal_closure(q, fs) ==
    LET initial == minimal_initial_state(q)
    IN  fc_loop(q, initial, formal(initial, fs), fs)

\* lines 165-171: <<state_list, j>> after the forward loop
RECURSIVE rfs_forward(_, _, _, _, _, _, _)
rfs_forward(q, s, state_list, flag, j, initial, fs) ==
    IF q = <<>> THEN <<state_list, j>>
    ELSE LET s1 == next_state(s, Head(q))
             flag1 == flag /\ contained(formal(s1, fs), initial)
         IN  rfs_forward(Tail(q), s1, Append(state_list, s1), flag1,
                         IF flag1 THEN j + 1 ELSE j, initial, fs)

\* mutant: the comparison of j with the length of the prefix is strict
RECURSIVE rfs_backward_strict(_, _, _, _, _, _, _)
rfs_backward_strict(q, i, state_list, j, T, RFS, fs) ==
    IF i > Len(q) THEN RFS
    ELSE LET R  == q[Len(q) - i + 1][1]
             f  == formal(state_list[Len(state_list) - i + 1], fs)
             T1 == T \o setminus(f, T)
             ok == /\ j > Len(q) - i
                   /\ Len(formal(setminus(state_list[Len(state_list) - i], R), fs)) = 0
             T2 == IF ok THEN sorted(T1) ELSE T1
         IN  rfs_backward_strict(q, i + 1, state_list, j, T2,
                                 IF ok /\ ~In(T2, RFS) THEN Append(RFS, T2) ELSE RFS, fs)

\* lines 173-182: the loop over reversed(p), i counting from 1
RECURSIVE rfs_backward(_, _, _, _, _, _, _)
rfs_backward(q, i, state_list, j, T, RFS, fs) ==
    IF i > Len(q) THEN RFS
    ELSE LET R  == q[Len(q) - i + 1][1]
             f  == formal(state_list[Len(state_list) - i + 1], fs)
             T1 == T \o setminus(f, T)
             ok == /\ j >= Len(q) - i
                   /\ Len(formal(setminus(state_list[Len(state_list) - i], R), fs)) = 0
             T2 == IF ok THEN sorted(T1) ELSE T1
         IN  rfs_backward(q, i + 1, state_list, j, T2,
                          IF ok /\ ~In(T2, RFS) THEN Append(RFS, T2) ELSE RFS, fs)

regular_final_state(q, fs) ==
    LET initial == minimal_initial_state(q)
        fw == rfs_forward(q, initial, <<initial>>, TRUE, 0, initial, fs)
    IN  sorted_nested(1, rfs_backward(q, 1, fw[1], fw[2], <<>>, <<>>, fs))

RECURSIVE width_loop(_, _, _)
width_loop(q, s, w) ==
    IF q = <<>> THEN w
    ELSE LET s1 == next_state(s, Head(q))
         IN  width_loop(Tail(q), s1, IF Len(s1) > w THEN Len(s1) ELSE w)

width(pathway) ==
    LET initial == minimal_initial_state(pathway)
    IN  width_loop(pathway, initial, Len(initial))

(***************************************************************************)
(* Tidiness checker.                                                       *)
(***************************************************************************)
\* mutant: the successor is enqueued without projecting it on intermediates
RECURSIVE tidy_for_unprojected(_, _, _, _, _)
tidy_for_unprojected(rxns, s, fs, m, q) ==
    IF rxns = <<>> THEN <<m, q>>
    ELSE IF Len(Head(rxns)[1]) > 0 /\ contained(Head(rxns)[1], s)
    THEN LET nS == next_state(s, Head(rxns))
         IN  IF ~In(nS, m)
             THEN tidy_for_unprojected(Tail(rxns), s, fs, Append(m, nS), Append(q, nS))
             ELSE tidy_for_unprojected(Tail(rxns), s, fs, m, q)
    ELSE tidy_for_unprojected(Tail(rxns), s, fs, m, q)

\* the for loop of one pass of tidy's while loop: <<mem, queue>> after it
RECURSIVE tidy_for(_, _, _, _, _)
tidy_for(rxns, s, fs, m, q) ==
    IF rxns = <<>> THEN <<m, q>>
    ELSE IF Len(Head(rxns)[1]) > 0 /\ contained(Head(rxns)[1], s)
    THEN LET nS == intermediate(next_state(s, Head(rxns)), fs)
         IN  IF ~In(nS, m)
             THEN tidy_for(Tail(rxns), s, fs, Append(m, nS), Append(q, nS))
             ELSE tidy_for(Tail(rxns), s, fs, m, q)
    ELSE tidy_for(Tail(rxns), s, fs, m, q)

\* tidy's while loop: "True", "False", or "Cut" when a state longer than
\* MaxTidyLen comes up for expansion (the search is not followed further)
RECURSIVE tidy_while(_, _, _, _)
tidy_while(q, m, rxns, fs) ==
    IF Len(q) = 0 THEN "False"
    ELSE IF Len(Head(q)) = 0 THEN "True"
    ELSE IF Len(Head(q)) > MaxTidyLen THEN "Cut"
    ELSE LET mq == tidy_for(rxns, Head(q), fs, m, Tail(q))
         IN  tidy_while(mq[2], mq[1], rxns, fs)

tidy(s, rxns, fs) ==
    tidy_while(<<intermediate(s, fs)>>, <<intermediate(s, fs)>>, rxns, fs)

(***************************************************************************)
(* Module partitioner.                                                     *)
(***************************************************************************)
\* ancestor(x) with its path compression: <<root, parent afterwards>>
RECURSIVE ancestor(_, _)
ancestor(parent, x) ==
    IF parent[x] # x
    THEN LET r == ancestor(parent, parent[x])
         IN  <<r[1], [r[2] EXCEPT ![x] = r[1]]>>
    ELSE <<x, parent>>

\* lines 435-438: the other intermediates of a reaction are joined to z
RECURSIVE fm_union(_, _, _)
fm_union(parent, z, xs) ==
    IF xs = <<>> THEN parent
    ELSE LET yp == ancestor(parent, Head(xs))
         IN  fm_union(IF z # yp[1] THEN [yp[2] EXCEPT ![yp[1]] = z] ELSE yp[2],
                      z, Tail(xs))

\* lines 429-438: parent after the first loop over the reactions
RECURSIVE fm_link(_, _, _)
fm_link(rxns, ints, parent) ==
    IF rxns = <<>> THEN parent
    ELSE LET t == SelectSeq(Head(rxns)[1] \o Head(rxns)[2], LAMBDA x : x \in ints)
         IN  IF Len(t) > 1
             THEN LET zp == ancestor(parent, t[1])
                  IN  fm_link(Tail(rxns), ints, fm_union(zp[2], zp[1], Tail(t)))
             ELSE fm_link(Tail(rxns), ints, parent)

\* mutant: a reaction is filed under its first intermediate, not under that
\* intermediate's ancestor
RECURSIVE fm_assign_noroot(_, _, _, _, _)
fm_assign_noroot(rxns, ints, parent, division, singles) ==
    IF rxns = <<>> THEN <<division, singles>>
    ELSE LET t == SelectSeq(Head(rxns)[1] \o Head(rxns)[2], LAMBDA x : x \in ints)
         IN  IF Len(t) > 0
             THEN fm_assign_noroot(Tail(rxns), ints, parent,
                                   [division EXCEPT ![t[1]] = Append(@, Head(rxns))],
                                   singles)
             ELSE fm_assign_noroot(Tail(rxns), ints, parent, division,
                                   Append(singles, <<Head(rxns)>>))

\* mutant: reactions without intermediates are all filed under one key
RECURSIVE fm_assign_onekey(_, _, _, _, _)
fm_assign_onekey(rxns, ints, parent, division, singles) ==
    IF rxns = <<>> THEN <<division, singles>>
    ELSE LET t == SelectSeq(Head(rxns)[1] \o Head(rxns)[2], LAMBDA x : x \in ints)
         IN  IF Len(t) > 0
             THEN LET zp == ancestor(parent, t[1])
                  IN  fm_assign_onekey(Tail(rxns), ints, zp[2],
                                       [division EXCEPT ![zp[1]] = Append(@, Head(rxns))],
                                       singles)
             ELSE fm_assign_onekey(Tail(rxns), ints, parent, division,
                                   IF singles = <<>> THEN << <<Head(rxns)>> >>
                                   ELSE << Append(singles[1], Head(rxns)) >>)

\* lines 439-447: the second loop.  division[z] for the intermediates z, and
\* the lists filed under the integer keys 0, 1, ... (singles)
RECURSIVE fm_assign(_, _, _, _, _)
fm_assign(rxns, ints, parent, division, singles) ==
    IF rxns = <<>> THEN <<division, singles>>
    ELSE LET t == SelectSeq(Head(rxns)[1] \o Head(rxns)[2], LAMBDA x : x \in ints)
         IN  IF Len(t) > 0
             THEN LET zp == ancestor(parent, t[1])
                  IN  fm_assign(Tail(rxns), ints, zp[2],
                                [division EXCEPT ![zp[1]] = Append(@, Head(rxns))],
                                singles)
             ELSE fm_assign(Tail(rxns), ints, parent, division,
                            Append(singles, <<Head(rxns)>>))

\* the elements of a set of numbers in ascending order
RECURSIVE Ascending(_)
Ascending(X) ==
    IF X = {} THEN <<>>
    ELSE LET m == CHOOSE x \in X : \A y \in X : x <= y
         IN  <<m>> \o Ascending(X \ {m})

\* find_modules(crn, intermediates): the non-empty values of division, here
\* in the order of the keys; the dict gives them in an order of its own
find_modules(rxns, ints) ==
    LET parent0 == [x \in ints |-> x]
        division0 == [x \in ints |-> <<>>]
        ds == fm_assign(rxns, ints, fm_link(rxns, ints, parent0), division0, <<>>)
        keys == Ascending(ints)
        values == [i \in 1..Len(keys) |-> ds[1][keys[i]]] \o ds[2]
    IN  SelectSeq(values, LAMBDA x : Len(x) > 0)

\* every order in which a dict may hand out the values
Orders(s) ==
    {[i \in 1..Len(s) |-> s[f[i]]] :
        f \in {g \in [1..Len(s) -> 1..Len(s)] :
                 \A i, j \in 1..Len(s) : g[i] = g[j] => i = j}}

(***************************************************************************)
(* Reference notions the properties are stated with: multisets by counts.  *)
(***************************************************************************)
Count(s, x) == Cardinality({i \in 1..Len(s) : s[i] = x})

SubBag(s, t) == \A x \in Species : Count(s, x) <= Count(t, x)

OnlyFormal(s) == \A i \in 1..Len(s) : s[i] \in Formals

\* the reactions of pathway q that mask m gives to side w, in q's order
RECURSIVE Side(_, _, _)
Side(q, m, w) ==
    IF q = <<>> THEN <<>>
    ELSE IF Head(m) = w THEN <<Head(q)>> \o Side(Tail(q), Tail(m), w)
    ELSE Side(Tail(q), Tail(m), w)

Masks(n) == [1..n -> {1, 2}]

\* the variables a specification does not use
TidyIdle == crn = <<>> /\ queue = <<>> /\ mem = <<>>

FunIdle == a = <<>> /\ b = <<>> /\ p = <<>> /\ S0 = <<>> /\ k = 0

NoResult == [status |-> "pending", basis |-> <<>>]

SearchIdle ==
    /\ done = 0 /\ ccheck = <<>> /\ w_max = 0 /\ i_max = 0
    /\ ret = <<>> /\ ebasis = <<>> /\ pidx = <<>>

FindIdle ==
    /\ optimize = FALSE /\ divs = <<>> /\ e = 0 /\ basis = <<>>
    /\ result = NoResult /\ mod = <<>> /\ nonwastes = {} /\ linear = FALSE

DrvIdle == FindIdle /\ SearchIdle /\ intermediates = {}

(***************************************************************************)
(* contained(a, b) on drawn lists.                                         *)
(***************************************************************************)
InitContained ==
    /\ pc = "contained"
    /\ a \in SeqsUpTo(Species, MaxLen)
    /\ b \in SeqsUpTo(Species, MaxLen)
    /\ p = <<>> /\ S0 = <<>> /\ S = <<>> /\ k = 0
    /\ out = "none"
    /\ TidyIdle
    /\ DrvIdle

CallContained ==
    /\ pc = "contained"
    /\ out' = contained(a, b)
    /\ pc' = "contained_done"
    /\ UNCHANGED <<a, b, p, S0, S, k, tidyVars, drvVars>>

NextContained == CallContained

SpecContained == InitContained /\ [][NextContained]_vars

(***************************************************************************)
(* The pathway engine on drawn pathways: replay by next_state from a drawn *)
(* start state, final_state, linearcheck, decompose.                       *)
(***************************************************************************)
Pathways == SeqsUpTo(PathRxns, MaxPath)

StartStates == {s \in SeqsUpTo(Species, MaxInit) : s = sorted(s)}

InitPath ==
    /\ a = <<>> /\ b = <<>>
    /\ p \in Pathways
    /\ k = 0
    /\ out = "none"
    /\ TidyIdle
    /\ DrvIdle
    /\ \/ /\ pc = "replay"
          /\ S0 \in StartStates \cup {minimal_initial_state(p)}
          /\ S = S0
       \/ /\ pc = "decompose"
          /\ S0 = <<>>
          /\ S = <<>>

\* one more reaction of p applied by next_state
ReplayStep ==
    /\ pc = "replay"
    /\ k < Len(p)
    /\ S # ValueError
    /\ S' = next_state(S, p[k + 1])
    /\ k' = k + 1
    /\ UNCHANGED <<pc, a, b, p, S0, out, tidyVars, drvVars>>

\* the replay is over (or has failed): what final_state and linearcheck
\* give for the same pathway and start state
ReplayEnd ==
    /\ pc = "replay"
    /\ k = Len(p) \/ S = ValueError
    /\ \E nonw \in {{3}, {3, 4}} :
          out' = [final |-> final_state(p, S0), linear |-> linearcheck(p, S0, nonw)]
    /\ pc' = "replayed"
    /\ UNCHANGED <<a, b, p, S0, S, k, tidyVars, drvVars>>

CallDecompose ==
    /\ pc = "decompose"
    /\ out' = decompose(p, Formals)
    /\ pc' = "decomposed"
    /\ UNCHANGED <<a, b, p, S0, S, k, tidyVars, drvVars>>

\* regular_final_state on the drawn pathway
CallRegularFinalState ==
    /\ pc = "decompose"
    /\ out' = regular_final_state(p, Formals)
    /\ pc' = "regular"
    /\ UNCHANGED <<a, b, p, S0, S, k, tidyVars, drvVars>>

\* formal_closure on the drawn pathway
CallFormalClosure ==
    /\ pc = "decompose"
    /\ out' = formal_closure(p, Formals)
    /\ pc' = "closure"
    /\ UNCHANGED <<a, b, p, S0, S, k, tidyVars, drvVars>>

NextPath ==
    \/ ReplayStep
    \/ ReplayEnd
    \/ CallDecompose
    \/ CallRegularFinalState
    \/ CallFormalClosure

SpecPath == InitPath /\ [][NextPath]_vars

(***************************************************************************)
(* tidy(S, crn, fs), one pass of its while loop per step.                  *)
(***************************************************************************)
\* I -> J,  J -> I,  I -> B,  I -> I + I,  I + I -> J,  A + J -> B,
\* (nothing) -> I
TidyRxns ==
    { << <<3>>, <<4>> >>, << <<4>>, <<3>> >>, << <<3>>, <<2>> >>,
      << <<3>>, <<3, 3>> >>, << <<3, 3>>, <<4>> >>, << <<1, 4>>, <<2>> >>,
      << <<>>, <<3>> >> }

InitTidy ==
    /\ pc = "tidy"
    /\ FunIdle
    /\ S \in StartStates
    /\ crn \in SeqsUpTo(TidyRxns, MaxCrn)
    /\ queue = <<>>
    /\ mem = <<>>
    /\ out = "none"
    /\ DrvIdle

\* lines 315-316
TidyStart ==
    /\ pc = "tidy"
    /\ queue' = <<intermediate(S, Formals)>>
    /\ mem' = <<intermediate(S, Formals)>>
    /\ pc' = "tidy_loop"
    /\ UNCHANGED <<funVars, crn, drvVars>>

\* the empty state is dequeued
TidyFound ==
    /\ pc = "tidy_loop"
    /\ Len(queue) > 0
    /\ Len(Head(queue)) = 0
    /\ out' = "True"
    /\ pc' = "tidy_done"
    /\ UNCHANGED <<a, b, p, S0, S, k, tidyVars, drvVars>>

\* a non-empty state is dequeued and its successors are enqueued
TidyExpand ==
    /\ pc = "tidy_loop"
    /\ Len(queue) > 0
    /\ Len(Head(queue)) # 0
    /\ Len(Head(queue)) <= MaxTidyLen
    /\ LET mq == tidy_for(crn, Head(queue), Formals, mem, Tail(queue))
       IN  mem' = mq[1] /\ queue' = mq[2]
    /\ UNCHANGED <<pc, funVars, crn, drvVars>>

\* the queue ran empty
TidyExhausted ==
    /\ pc = "tidy_loop"
    /\ Len(queue) = 0
    /\ out' = "False"
    /\ pc' = "tidy_done"
    /\ UNCHANGED <<a, b, p, S0, S, k, tidyVars, drvVars>>

\* a state beyond the model's bound comes up: the run is not followed further
TidyCut ==
    /\ pc = "tidy_loop"
    /\ Len(queue) > 0
    /\ Len(Head(queue)) > MaxTidyLen
    /\ pc' = "tidy_cut"
    /\ UNCHANGED <<funVars, tidyVars, drvVars>>

NextTidy == TidyStart \/ TidyFound \/ TidyExpand \/ TidyExhausted \/ TidyCut

SpecTidy == InitTidy /\ [][NextTidy]_vars

\* Reference: the graph on intermediate-projected states, a state being the
\* count of each species; an edge for every reaction of rxns with a non-empty
\* reactant multiset contained in the state.
Bag(s) == [x \in Species |-> IF x \in Formals THEN 0 ELSE Count(s, x)]

BagSize(st) == st[1] + st[2] + st[3] + st[4] + st[5]

Edge(st, rxn) ==
    [x \in Species |->
        IF x \in Formals THEN 0 ELSE st[x] - Count(rxn[1], x) + Count(rxn[2], x)]

Successors(st, rxns) ==
    {Edge(st, rxns[i]) : i \in {j \in 1..Len(rxns) :
        /\ rxns[j][1] # <<>>
        /\ \A x \in Species : Count(rxns[j][1], x) <= st[x]}}

\* the states reachable from the frontier through states of at most cap species
RECURSIVE Reach(_, _, _, _)
Reach(frontier, seen, rxns, cap) ==
    IF frontier = {} THEN seen
    ELSE LET new == (UNION {Successors(st, rxns) :
                        st \in {t \in frontier : BagSize(t) <= cap}}) \ seen
         IN  Reach(new, seen \cup new, rxns, cap)

EmptyReachable(s, rxns) ==
    [x \in Species |-> 0] \in Reach({Bag(s)}, {Bag(s)}, rxns, MaxTidyLen)

(***************************************************************************)
(* find_modules(crn, intermediates) on drawn CRNs.                         *)
(***************************************************************************)
\* A -> B,  A -> I,  I -> B,  I -> J,  K -> J + B,  A + K -> B
ModRxns ==
    { << <<1>>, <<2>> >>, << <<1>>, <<3>> >>, << <<3>>, <<2>> >>,
      << <<3>>, <<4>> >>, << <<5>>, <<4, 2>> >>, << <<1, 5>>, <<2>> >> }

InitModules ==
    /\ pc = "modules"
    /\ FunIdle
    /\ crn \in SeqsUpTo(ModRxns, MaxMod)
    /\ intermediates \in SUBSET (Species \ Formals)
    /\ S = <<>>
    /\ queue = <<>>
    /\ mem = <<>>
    /\ out = "none"
    /\ FindIdle
    /\ SearchIdle

CallFindModules ==
    /\ pc = "modules"
    /\ out' \in Orders(find_modules(crn, intermediates))
    /\ pc' = "modules_done"
    /\ UNCHANGED <<a, b, p, S0, S, k, tidyVars, drvVars>>

NextModules == CallFindModules

SpecModules == InitModules /\ [][NextModules]_vars

\* Reference: the intermediates a reaction touches, and the reactions of
\* rxns linked to r by a chain of reactions in which consecutive reactions
\* touch a common intermediate.
Touch(r, ints) == {x \in ints : In(x, r[1] \o r[2])}

TouchAll(m, ints) == UNION {Touch(m[i], ints) : i \in 1..Len(m)}

RECURSIVE Linked(_, _, _)
Linked(R, rxns, ints) ==
    LET more == {rxns[i] : i \in {j \in 1..Len(rxns) :
                    \E r \in R : Touch(r, ints) \cap Touch(rxns[j], ints) # {}}}
    IN  IF more \subseteq R THEN R ELSE Linked(R \cup more, rxns, ints)

RECURSIVE SumCount(_, _)
SumCount(ms, r) ==
    IF ms = <<>> THEN 0 ELSE Count(Head(ms), r) + SumCount(Tail(ms), r)

(***************************************************************************)
(* Basis search driver and basis assembler: find_basis, enumerate_basis,   *)
(* enumerate_pathways, on drawn CRNs.  find_basis is called without an     *)
(* interpretation (inter2 = None).                                         *)
(***************************************************************************)
\* A -> B,  A -> I,  I -> B,  I -> I,  I -> I + I,  I -> (nothing),
\* A -> B + I,  B + I -> (nothing)
DrvRxns ==
    { << <<1>>, <<2>> >>, << <<1>>, <<3>> >>, << <<3>>, <<2>> >>,
      << <<3>>, <<3>> >>, << <<3>>, <<3, 3>> >>, << <<3>>, <<>> >>,
      << <<1>>, <<2, 3>> >>, << <<2, 3>>, <<>> >> }

\* Larger CRNs the driver is also run on:
\*   A -> I, I -> I + I, I -> (nothing)       pathways of unbounded width
\*   A -> B, A -> I, I -> B                   two modules with the same pair
\*   A -> B + I, I -> (nothing), B + I -> (nothing)     not regular
\*   A -> B, A -> I, A -> J                   a verified and two untidy modules
\*   A -> I, I -> B, A -> J, J -> B           two modules with intermediates
\*   I -> A + B, A -> I + I, B + I -> A + K, A + B -> (nothing)
\*                                            the third pass is aborted
DrvCrns ==
    { << << <<3>>, <<1, 2>> >>, << <<1>>, <<3, 3>> >>,
         << <<2, 3>>, <<1, 5>> >>, << <<1, 2>>, <<>> >> >> } \cup
    { << << <<1>>, <<3>> >>, << <<3>>, <<3, 3>> >>, << <<3>>, <<>> >> >>,
      << << <<1>>, <<2>> >>, << <<1>>, <<3>> >>, << <<3>>, <<2>> >> >>,
      << << <<1>>, <<2, 3>> >>, << <<3>>, <<>> >>, << <<2, 3>>, <<>> >> >>,
      << << <<1>>, <<2>> >>, << <<1>>, <<3>> >>, << <<1>>, <<4>> >> >>,
      << << <<1>>, <<3>> >>, << <<3>>, <<2>> >>, << <<1>>, <<4>> >>, << <<4>>, <<2>> >> >> }

Max(x, y) == IF x >= y THEN x ELSE y

RECURSIVE MaxOf(_)
MaxOf(s) == IF Len(s) = 1 THEN s[1] ELSE Max(s[1], MaxOf(Tail(s)))

\* lines 348-351: the branching factors of a non-empty crn
b_of(rxns) == MaxOf([i \in 1..Len(rxns) |-> Max(Len(rxns[i][1]), Len(rxns[i][2]))])

bf_of(rxns, fs) == MaxOf([i \in 1..Len(rxns) |-> Len(intermediate(rxns[i][1], fs))])

br_of(rxns, fs) ==
    remove_duplicates(1, [i \in 1..Len(rxns) |->
        <<Len(formal(rxns[i][1], fs)), Len(intermediate(rxns[i][1], fs))>>])

\* lines 369-377: largest width / initial size among the signatures without
\* decomposition
RECURSIVE current_w(_)
current_w(sigs) ==
    IF sigs = <<>> THEN 0
    ELSE LET rest == current_w(Tail(sigs))
         IN  IF Len(Head(sigs)[5]) = 0 /\ Head(sigs)[3] > rest THEN Head(sigs)[3] ELSE rest

RECURSIVE current_i(_)
current_i(sigs) ==
    IF sigs = <<>> THEN 0
    ELSE LET rest == current_i(Tail(sigs))
         IN  IF Len(Head(sigs)[5]) = 0 /\ Len(Head(sigs)[1]) > rest
             THEN Len(Head(sigs)[1]) ELSE rest

\* mutant: b is subtracted
w_t_of_minus(sigs, rxns, fs) == current_w(sigs) * bf_of(rxns, fs) - b_of(rxns)

\* line 379
w_t_of(sigs, rxns, fs) == current_w(sigs) * bf_of(rxns, fs) + b_of(rxns)

\* lines 380-382
RECURSIVE i_t_loop(_, _, _)
i_t_loop(br, ci, i_t) ==
    IF br = <<>> THEN i_t
    ELSE i_t_loop(Tail(br), ci, Max(i_t, ci * Head(br)[2] + Head(br)[1]))

i_t_of(sigs, rxns, fs) == i_t_loop(br_of(rxns, fs), current_i(sigs), 0)

\* lines 392-396, 413: the pairs of the pathways of ebasis
fbasis_raw_of(eb) ==
    remove_duplicates(2, sorted_nested(2,
        [i \in 1..Len(eb) |->
            LET initial == minimal_initial_state(eb[i])
            IN  <<sorted(initial), sorted(final_state(eb[i], initial))>>]))

\* line 474: the species of a CRN
SpeciesOf(rxns) ==
    UNION {{rxns[i][1][j] : j \in 1..Len(rxns[i][1])}
           \cup {rxns[i][2][j] : j \in 1..Len(rxns[i][2])} : i \in 1..Len(rxns)}

\* lines 486-488
nonwastes_of(m, ints) ==
    LET reactants == UNION {{m[i][1][j] : j \in 1..Len(m[i][1])} : i \in 1..Len(m)}
        wastes == ints \ reactants
    IN  ints \ wastes

\* lines 491-497
linear_of(m, nonw) ==
    \A i \in 1..Len(m) :
        ~(\/ Len(SelectSeq(m[i][1], LAMBDA x : x \in nonw)) > 1
          \/ Len(SelectSeq(m[i][2], LAMBDA x : x \in nonw)) > 1)

InitDrv ==
    /\ pc = "find_basis"
    /\ FunIdle /\ S = <<>> /\ out = "none"
    /\ queue = <<>> /\ mem = <<>>
    /\ crn \in SeqsUpTo(DrvRxns, MaxDrv) \cup DrvCrns
    /\ optimize \in BOOLEAN
    /\ intermediates = {}
    /\ divs = <<>> /\ e = 0 /\ basis = <<>>
    /\ result = NoResult /\ mod = <<>> /\ nonwastes = {} /\ linear = FALSE
    /\ SearchIdle

\* ---- find_basis ----
\* lines 471-481: the CRN is split into modules
FindBasisModules ==
    /\ pc = "find_basis"
    /\ optimize
    /\ intermediates' = SpeciesOf(crn) \ Formals
    /\ divs' \in Orders(find_modules(crn, intermediates'))
    /\ basis' = <<>>
    /\ pc' = "next_module"
    /\ UNCHANGED <<funVars, tidyVars, optimize, e, result, mod, nonwastes, linear, searchVars>>

\* lines 505-506: the whole CRN is one module, nonw = None
FindBasisWhole ==
    /\ pc = "find_basis"
    /\ ~optimize
    /\ mod' = crn
    /\ linear' = FALSE
    /\ pc' = "enumerate_basis"
    /\ UNCHANGED <<funVars, tidyVars, optimize, intermediates, divs, e, basis, result,
                   nonwastes, searchVars>>

\* lines 482-499: the next module, its non-wastes, the linear-structure test
NextModule ==
    /\ pc = "next_module"
    /\ e < Len(divs)
    /\ e' = e + 1
    /\ mod' = divs[e + 1]
    /\ nonwastes' = nonwastes_of(divs[e + 1], intermediates)
    /\ linear' = linear_of(divs[e + 1], nonwastes')
    /\ pc' = "enumerate_basis"
    /\ UNCHANGED <<funVars, tidyVars, optimize, intermediates, divs, basis, result, searchVars>>

\* lines 510-513: all modules verified, the collected basis is returned
ReturnBasis ==
    /\ pc = "next_module"
    /\ e = Len(divs)
    /\ result' = [status |-> "basis", basis |-> basis]
    /\ pc' = "returned"
    /\ UNCHANGED <<funVars, tidyVars, optimize, intermediates, divs, e, basis, mod,
                   nonwastes, linear, searchVars>>

\* ---- enumerate_basis ----
\* lines 348-349: max() of an empty sequence raises ValueError
EnumerateBasisEmpty ==
    /\ pc = "enumerate_basis"
    /\ mod = <<>>
    /\ result' = [status |-> "ValueError", basis |-> <<>>]
    /\ pc' = "raised"
    /\ UNCHANGED <<funVars, tidyVars, optimize, intermediates, divs, e, basis, mod,
                   nonwastes, linear, searchVars>>

\* lines 354-366: the globals are set up and the first pass starts
EnumerateBasisStart ==
    /\ pc = "enumerate_basis"
    /\ mod # <<>>
    /\ done' = 0
    /\ ccheck' = <<>>
    /\ w_max' = 0
    /\ i_max' = 0
    /\ ret' = <<>>
    /\ ebasis' = <<>>
    /\ pidx' = <<>>
    /\ pc' = "call"
    /\ UNCHANGED <<funVars, tidyVars, findVars>>

\* ---- enumerate_pathways(p, w_max, i_max, crn, fs, nonw), at its entry ----
P == [i \in 1..Len(pidx) |-> mod[pidx[i]]]

w_p == width(P)

initial_p == minimal_initial_state(P)

final_p == final_state(P, initial_p)

DFS_p == decompose(P, Formals)

\* mutant: the final state itself is taken for the only regular final state
RFS_p_final == <<final_p>>

RFS_p == regular_final_state(P, Formals)

sig_p == <<initial_p, final_p, w_p, formal_closure(P, Formals), DFS_p, RFS_p>>

\* mutant: a decomposition with an all-formal side does not end the call
Pruned_undecomposed ==
    \/ w_p > w_max
    \/ ~formal_state(initial_p, Formals)
    \/ Len(initial_p) > i_max
    \/ linear /\ linearcheck(P, initial_p, nonwastes) = "False"
    \/ In(sig_p, ret)

\* mutant: the size of the minimal initial state is not tested
Pruned_anysize ==
    \/ w_p > w_max
    \/ ~formal_state(initial_p, Formals)
    \/ linear /\ linearcheck(P, initial_p, nonwastes) = "False"
    \/ \E i \in 1..Len(DFS_p) :
          formal_state(DFS_p[i][1], Formals) \/ formal_state(DFS_p[i][2], Formals)
    \/ In(sig_p, ret)

\* lines 205-234: one of the returns before the signature is recorded
Pruned ==
    \/ w_p > w_max
    \/ ~formal_state(initial_p, Formals)
    \/ Len(initial_p) > i_max
    \/ linear /\ linearcheck(P, initial_p, nonwastes) = "False"
    \/ \E i \in 1..Len(DFS_p) :
          formal_state(DFS_p[i][1], Formals) \/ formal_state(DFS_p[i][2], Formals)
    \/ In(sig_p, ret)

\* mutant: the abort flag is not looked at on entry
Recorded_unchecked == pc = "call" /\ ~Pruned

Recorded == pc = "call" /\ done = 0 /\ ~Pruned

\* lines 237-238: the final state goes through the tidiness check
NeedsTidy == Len(DFS_p) = 0 /\ ~In(final_p, ccheck)

ccheck_after == IF NeedsTidy THEN Append(ccheck, final_p) ELSE ccheck

\* line 246
IsBasis == Len(DFS_p) = 0 /\ Len(P) > 0 /\ formal_state(final_p, Formals)

\* lines 202-203
EPDone ==
    /\ pc = "call"
    /\ done = 1
    /\ pc' = "return"
    /\ UNCHANGED <<funVars, tidyVars, findVars, searchVars>>

\* lines 205-234
EPPrune ==
    /\ pc = "call"
    /\ done = 0
    /\ Pruned
    /\ pc' = "return"
    /\ UNCHANGED <<funVars, tidyVars, findVars, searchVars>>

\* lines 235-245: the final state is not tidy
EPNotTidy ==
    /\ Recorded
    /\ NeedsTidy
    /\ tidy(final_p, mod, Formals) = "False"
    /\ ret' = Append(ret, sig_p)
    /\ ccheck' = ccheck_after
    /\ done' = 1
    /\ pc' = "return"
    /\ UNCHANGED <<funVars, tidyVars, findVars, w_max, i_max, ebasis, pidx>>

\* tidy's search goes beyond the model's bound: the run is not followed further
EPTidyCut ==
    /\ Recorded
    /\ NeedsTidy
    /\ tidy(final_p, mod, Formals) = "Cut"
    /\ ret' = Append(ret, sig_p)
    /\ ccheck' = ccheck_after
    /\ pc' = "cut_tidy"
    /\ UNCHANGED <<funVars, tidyVars, findVars, done, w_max, i_max, ebasis, pidx>>

TidyPassed == NeedsTidy => tidy(final_p, mod, Formals) = "True"

\* lines 270-276: the pathway joins ebasis, its final state is not regular
EPNotRegular ==
    /\ Recorded
    /\ TidyPassed
    /\ IsBasis
    /\ ~In(final_p, RFS_p)
    /\ ret' = Append(ret, sig_p)
    /\ ccheck' = ccheck_after
    /\ ebasis' = Append(ebasis, P)
    /\ done' = 1
    /\ pc' = "return"
    /\ UNCHANGED <<funVars, tidyVars, findVars, w_max, i_max, pidx>>

\* lines 235-287: the signature is recorded, the pathway joins ebasis if it
\* is a basis pathway, and the loop over the reactions makes its first call
EPDescend ==
    /\ Recorded
    /\ TidyPassed
    /\ IsBasis => In(final_p, RFS_p)
    /\ ret' = Append(ret, sig_p)
    /\ ccheck' = ccheck_after
    /\ ebasis' = IF IsBasis THEN Append(ebasis, P) ELSE ebasis
    /\ pidx' = Append(pidx, 1)
    /\ UNCHANGED <<pc, funVars, tidyVars, findVars, done, w_max, i_max>>

\* lines 286-287: a call returned; the caller's loop makes its next call
EPNextReaction ==
    /\ pc = "return"
    /\ pidx # <<>>
    /\ pidx[Len(pidx)] < Len(mod)
    /\ pidx' = [pidx EXCEPT ![Len(pidx)] = @ + 1]
    /\ pc' = "call"
    /\ UNCHANGED <<funVars, tidyVars, findVars, done, ccheck, w_max, i_max, ret, ebasis>>

\* lines 286-287: the caller's loop is over, the caller returns
EPLoopEnd ==
    /\ pc = "return"
    /\ pidx # <<>>
    /\ pidx[Len(pidx)] = Len(mod)
    /\ pidx' = SubSeq(pidx, 1, Len(pidx) - 1)
    /\ UNCHANGED <<pc, funVars, tidyVars, findVars, done, ccheck, w_max, i_max, ret, ebasis>>

\* ---- enumerate_basis, after the call of line 366 returned ----
PassOver == pc = "return" /\ pidx = <<>>

w_t == w_t_of(ret, mod, Formals)

i_t == i_t_of(ret, mod, Formals)

\* mutant: the comparison is strict
AtFixpoint_strict == w_t < w_max /\ i_t < i_max

\* line 383
AtFixpoint == w_t <= w_max /\ i_t <= i_max

\* lines 383-384: the derived bounds do not exceed the current ones
PassFixpoint ==
    /\ PassOver
    /\ AtFixpoint
    /\ pc' = "exit"
    /\ UNCHANGED <<funVars, tidyVars, findVars, searchVars>>

\* mutant: the tidiness cache is emptied with ret and ebasis
PassWiden_recheck ==
    /\ PassOver
    /\ ~AtFixpoint
    /\ done = 0
    /\ w_t <= MaxW /\ i_t <= MaxI
    /\ w_max' = w_t
    /\ i_max' = i_t
    /\ ret' = <<>>
    /\ ebasis' = <<>>
    /\ ccheck' = <<>>
    /\ pc' = "call"
    /\ UNCHANGED <<funVars, tidyVars, findVars, done, pidx>>

\* lines 385-386, 358-366: the bounds are widened and the next pass starts
PassWiden ==
    /\ PassOver
    /\ ~AtFixpoint
    /\ done = 0
    /\ w_t <= MaxW /\ i_t <= MaxI
    /\ w_max' = w_t
    /\ i_max' = i_t
    /\ ret' = <<>>
    /\ ebasis' = <<>>
    /\ pc' = "call"
    /\ UNCHANGED <<funVars, tidyVars, findVars, done, ccheck, pidx>>

\* the widened bounds exceed the model's bound: the run is not followed further
PassCut ==
    /\ PassOver
    /\ ~AtFixpoint
    /\ done = 0
    /\ ~(w_t <= MaxW /\ i_t <= MaxI)
    /\ w_max' = w_t
    /\ i_max' = i_t
    /\ pc' = "cut_widen"
    /\ UNCHANGED <<funVars, tidyVars, findVars, done, ccheck, ret, ebasis, pidx>>

\* lines 385-386, 358: the bounds are replaced after an aborted pass and the
\* while loop ends
PassAborted ==
    /\ PassOver
    /\ ~AtFixpoint
    /\ done = 1
    /\ w_max' = w_t
    /\ i_max' = i_t
    /\ pc' = "exit"
    /\ UNCHANGED <<funVars, tidyVars, findVars, done, ccheck, ret, ebasis, pidx>>

\* ---- back in find_basis ----
\* mutant: the pairs collected so far are returned
ModuleRejected_partial ==
    /\ pc = "exit"
    /\ done = 1
    /\ result' = [status |-> "basis", basis |-> basis]
    /\ pc' = "returned"
    /\ UNCHANGED <<funVars, tidyVars, optimize, intermediates, divs, e, basis, mod,
                   nonwastes, linear, searchVars>>

\* lines 388, 500-501 / 507-508: enumerate_basis returned None
ModuleRejected ==
    /\ pc = "exit"
    /\ done = 1
    /\ result' = [status |-> "None", basis |-> <<>>]
    /\ pc' = "returned"
    /\ UNCHANGED <<funVars, tidyVars, optimize, intermediates, divs, e, basis, mod,
                   nonwastes, linear, searchVars>>

\* lines 390-414, 502-504: the module's pairs are added to basis
ModuleVerified ==
    /\ pc = "exit"
    /\ done = 0
    /\ optimize
    /\ basis' = basis \o fbasis_raw_of(ebasis)
    /\ pc' = "next_module"
    /\ UNCHANGED <<funVars, tidyVars, optimize, intermediates, divs, e, result, mod,
                   nonwastes, linear, searchVars>>

\* lines 390-414, 509-513: the pairs of the whole CRN are returned
WholeVerified ==
    /\ pc = "exit"
    /\ done = 0
    /\ ~optimize
    /\ basis' = fbasis_raw_of(ebasis)
    /\ result' = [status |-> "basis", basis |-> basis']
    /\ pc' = "returned"
    /\ UNCHANGED <<funVars, tidyVars, optimize, intermediates, divs, e, mod,
                   nonwastes, linear, searchVars>>

Next ==
    \/ FindBasisModules \/ FindBasisWhole \/ NextModule \/ ReturnBasis
    \/ EnumerateBasisEmpty \/ EnumerateBasisStart
    \/ EPDone \/ EPPrune \/ EPNotTidy \/ EPTidyCut \/ EPNotRegular \/ EPDescend
    \/ EPNextReaction \/ EPLoopEnd
    \/ PassFixpoint \/ PassWiden \/ PassCut \/ PassAborted
    \/ ModuleRejected \/ ModuleVerified \/ WholeVerified

Spec == InitDrv /\ [][Next]_vars

\* find_basis has returned or raised, or the run is not followed further
Halted == pc \in {"returned", "raised", "cut_tidy", "cut_widen"}

\* The position of the run moves on: every step of Next changes pc or moves
\* pidx by one call or one return.
Goes ==
    /\ ~Halted
    /\ pc' \in {"next_module", "enumerate_basis", "call", "return", "exit",
                "returned", "raised", "cut_tidy", "cut_widen"}
    /\ pidx' \in {pidx, Append(pidx, 1)} \cup
                 (IF pidx = <<>> THEN {}
                  ELSE {SubSeq(pidx, 1, Len(pidx) - 1),
                        [pidx EXCEPT ![Len(pidx)] = @ + 1]})

\* The program is one sequential run: as long as find_basis has not returned
\* or raised, its next step is taken.  Next has a step in every state that is
\* not Halted and each step of Next is a step of Goes that changes
\* <<pc, pidx>>, so the condition is WF_vars(Next), stated on the position.
SpecLive == InitDrv /\ [][Next]_vars /\ WF_<<pc, pidx>>(Goes)

(***************************************************************************)
(* find_basis called twice on the same CRN: first on the whole CRN         *)
(* (optimize = False), then, with the first result kept in out, module by  *)
(* module (optimize = True).                                               *)
(***************************************************************************)
InitBoth == InitDrv /\ ~optimize

\* the first call has returned or raised: its result is kept and the
\* second call starts from the state a call starts in
Rerun ==
    /\ pc \in {"returned", "raised"}
    /\ ~optimize
    /\ out' = result
    /\ optimize' = TRUE
    /\ pc' = "find_basis"
    /\ intermediates' = {}
    /\ divs' = <<>> /\ e' = 0 /\ basis' = <<>>
    /\ result' = NoResult /\ mod' = <<>> /\ nonwastes' = {} /\ linear' = FALSE
    /\ done' = 0 /\ ccheck' = <<>> /\ w_max' = 0 /\ i_max' = 0
    /\ ret' = <<>> /\ ebasis' = <<>> /\ pidx' = <<>>
    /\ UNCHANGED <<a, b, p, S0, S, k, tidyVars>>

NextBoth == Next \/ Rerun

SpecBoth == InitBoth /\ [][NextBoth]_vars

(***************************************************************************)
(* C5: find_modules returns non-empty modules; every listed reaction lies  *)
(* in exactly one of them (the modules share no reaction and together hold *)
(* each reaction as often as crn lists it); and no two distinct modules    *)
(* touch a common intermediate.                                            *)
(***************************************************************************)
C5_Partition ==
    pc = "modules_done" =>
        /\ \A i \in 1..Len(out) : Len(out[i]) > 0
        /\ \A r \in ModRxns : SumCount(out, r) = Count(crn, r)
        /\ \A i, j \in 1..Len(out) :
              i # j =>
                /\ TouchAll(out[i], intermediates) \cap TouchAll(out[j], intermediates) = {}
                /\ \A r \in ModRxns :
                      (Count(crn, r) = 1) => ~(In(r, out[i]) /\ In(r, out[j]))

C5_Witness ==
    /\ pc = "modules_done"
    /\ Len(crn) = 3
    /\ Len(out) = 2
    /\ Len(out[1]) = 2
    /\ Cardinality(TouchAll(out[1], intermediates)) = 2
    /\ TouchAll(out[2], intermediates) # {}

(***************************************************************************)
(* C6: two reactions share a module only if a chain of reactions, each     *)
(* touching an intermediate of the next, links them; and every reaction    *)
(* that touches no intermediate is a module of its own.                    *)
(***************************************************************************)
C6_ModuleChains ==
    pc = "modules_done" =>
        /\ \A i \in 1..Len(out) :
              \A u, v \in 1..Len(out[i]) :
                  out[i][v] \in Linked({out[i][u]}, crn, intermediates)
        /\ \A i \in 1..Len(out) :
              \A u \in 1..Len(out[i]) :
                  Touch(out[i][u], intermediates) = {} => Len(out[i]) = 1
        /\ \A r \in ModRxns :
              Touch(r, intermediates) = {} =>
                  Cardinality({i \in 1..Len(out) : out[i] = <<r>>}) = Count(crn, r)

C6_Witness ==
    /\ pc = "modules_done"
    /\ Len(crn) = 3
    /\ \E i \in 1..Len(out) :
          /\ Len(out[i]) = 2
          /\ Touch(out[i][1], intermediates) \cap Touch(out[i][2], intermediates) # {}
    /\ \E i \in 1..Len(out) : Len(out[i]) = 1 /\ Touch(out[i][1], intermediates) = {}

(***************************************************************************)
(* C1: tidy(S, crn, fs) returns true exactly when the empty state can be   *)
(* reached from intermediate(S, fs) in the graph on intermediate-projected *)
(* states whose edges are the reactions with a non-empty reactant multiset *)
(* contained in the current projected state.                               *)
(***************************************************************************)
C1_TidyReach ==
    pc = "tidy_done" => (out = "True" <=> EmptyReachable(S, crn))

C1_Witness ==
    /\ pc = "tidy_done"
    /\ out = "True"
    /\ Len(mem) >= 3
    /\ Len(intermediate(S, Formals)) = 2

(***************************************************************************)
(* C2: contained(a, b) is true exactly when every species occurs in a at   *)
(* most as often as in b.                                                  *)
(***************************************************************************)
C2_Contained == pc = "contained_done" => (out <=> SubBag(a, b))

C2_Witness ==
    /\ pc = "contained_done"
    /\ out = TRUE
    /\ Len(a) = 2 /\ a[1] > a[2]
    /\ Len(b) = 3 /\ b[1] > b[2]

(***************************************************************************)
(* C3: replaying a pathway from its minimal initial state by next_state    *)
(* never fails, linearcheck's assertion does not fire, and the state       *)
(* reached is final_state(p, initial), which is not the infeasible marker. *)
(***************************************************************************)
C3_ReplayConsistent ==
    (pc \in {"replay", "replayed"} /\ S0 = minimal_initial_state(p)) =>
        /\ S # ValueError
        /\ pc = "replayed" =>
              /\ out.final # None
              /\ out.final = S
              /\ out.linear # "AssertionError"

C3_Witness ==
    /\ pc = "replayed"
    /\ S0 = minimal_initial_state(p)
    /\ Len(p) = 3
    /\ Len(S0) = 2
    /\ out.final = S

(***************************************************************************)
(* C4: every state from which the whole pathway can be fired in order      *)
(* contains minimal_initial_state(p) as a sub-multiset.                    *)
(***************************************************************************)
C4_Minimal ==
    (pc = "replayed" /\ S # ValueError) => SubBag(minimal_initial_state(p), S0)

C4_Witness ==
    /\ pc = "replayed"
    /\ S # ValueError
    /\ Len(p) = 2
    /\ S0 # minimal_initial_state(p)
    /\ Len(minimal_initial_state(p)) = 1

(***************************************************************************)
(* C7: every pair decompose(p, fs) returns is the pair of final states of  *)
(* two sub-pathways that split the reactions of p between them (each       *)
(* reaction on exactly one side, order kept) and whose minimal initial     *)
(* states hold formal species only.                                        *)
(***************************************************************************)
C7_DecomposeSound ==
    pc = "decomposed" =>
        \A i \in 1..Len(out) :
            \E m \in Masks(Len(p)) :
                LET p1 == Side(p, m, 1)
                    p2 == Side(p, m, 2)
                IN  /\ \A r \in PathRxns : Count(p1, r) + Count(p2, r) = Count(p, r)
                    /\ OnlyFormal(minimal_initial_state(p1))
                    /\ OnlyFormal(minimal_initial_state(p2))
                    /\ out[i] = <<final_state(p1, minimal_initial_state(p1)),
                                  final_state(p2, minimal_initial_state(p2))>>

C7_Witness ==
    /\ pc = "decomposed"
    /\ Len(p) = 3
    /\ Len(out) >= 2

NotTidyFound ==
    /\ done = 1
    /\ ccheck # <<>>
    /\ tidy(ccheck[Len(ccheck)], mod, Formals) = "False"

C10_Rejected == pc = "returned" /\ result = [status |-> "None", basis |-> <<>>]

C10_NotTidyRejects ==
    /\ [][NotTidyFound => /\ NotTidyFound'
                          /\ e' = e /\ mod' = mod /\ basis' = basis
                          /\ result'.basis = <<>>
                          /\ result'.status \in {"pending", "None"}]_vars
    /\ (NotTidyFound ~> C10_Rejected)

\* the second of three modules was not tidy; the first had been verified and
\* its pair collected, the third was never searched
C10_Witness ==
    /\ C10_Rejected
    /\ NotTidyFound
    /\ optimize
    /\ e = 2
    /\ Len(divs) = 3
    /\ basis # <<>>

GrowthCrn == << << <<1>>, <<3>> >>, << <<3>>, <<3, 3>> >>, << <<3>>, <<>> >> >>

Justified(pair, eb, rxns) ==
    \E i \in 1..Len(eb) :
        LET q == eb[i]
            initial == minimal_initial_state(q)
            final == final_state(q, initial)
        IN  /\ Len(q) > 0
            /\ \A j \in 1..Len(q) : In(q[j], rxns)
            /\ pair = <<sorted(initial), sorted(final)>>
            /\ OnlyFormal(initial)
            /\ OnlyFormal(final)
            /\ decompose(q, Formals) = <<>>
            /\ In(final, regular_final_state(q, Formals))

C11_BasisJustified ==
    /\ [][(pc = "exit" /\ done = 0) =>
            \A n \in 1..Len(basis') :
                In(basis'[n], basis) \/ Justified(basis'[n], ebasis, crn)]_vars
    /\ [][basis' # basis => (pc = "exit" /\ done = 0) \/ basis' = <<>>]_vars
    /\ [](result.status = "basis" => result.basis = basis)

\* a basis of two modules, each with an intermediate, has been returned
C11_Witness ==
    /\ pc = "returned"
    /\ result.status = "basis"
    /\ optimize
    /\ e = 2
    /\ Len(result.basis) = 2
    /\ ebasis # <<>>

(***************************************************************************)
(* C12, as stated: for every CRN, find_basis with module partitioning      *)
(* (optimize = True) and find_basis on the whole CRN (optimize = False)    *)
(* agree: either both reject, or both return the same set of pairs.        *)
(* Stated for the calls that come to an end in the model.                  *)
(***************************************************************************)
PairSet(bs) == {bs[n] : n \in 1..Len(bs)}

BothEnded == optimize /\ pc \in {"returned", "raised"}

C12_OptimizeAgrees ==
    BothEnded =>
        \/ out.status = "None" /\ result.status = "None"
        \/ /\ out.status = "basis" /\ result.status = "basis"
           /\ PairSet(out.basis) = PairSet(result.basis)

\* the same, for a CRN with at least one reaction
C12_AgreeNonEmpty == crn # <<>> => C12_OptimizeAgrees

\* both calls returned a basis, and the second lists more pairs than the first
C12_Witness ==
    /\ BothEnded
    /\ out.status = "basis"
    /\ result.status = "basis"
    /\ Len(result.basis) > Len(out.basis)

(***************************************************************************)
(* C13, as stated: the basis returned by find_basis is the deduplicated    *)
(* union of the modules' bases: no (initial, final) pair occurs in it more *)
(* than once, even when two modules each realise the same pair.            *)
(***************************************************************************)
C13_NoDuplicatePairs ==
    (pc = "returned" /\ result.status = "basis") =>
        \A n, m \in 1..Len(result.basis) :
            n # m => result.basis[n] # result.basis[m]

\* a basis collected from two or more modules has been returned
C13_Witness ==
    /\ pc = "returned"
    /\ result.status = "basis"
    /\ optimize
    /\ Len(divs) >= 2
    /\ Len(result.basis) >= 2

(***************************************************************************)
(* find_basis called on one CRN and, when that call was rejected, called   *)
(* once more on a CRN that is not tidy or on one that is not regular; out  *)
(* keeps the value the first call returned and what made it abort.         *)
(***************************************************************************)
\* A -> I (not tidy);  A -> B + I, I -> (nothing), B + I -> (nothing) (not regular)
AgainCrns ==
    { << << <<1>>, <<3>> >> >>,
      << << <<1>>, <<2, 3>> >>, << <<3>>, <<>> >>, << <<2, 3>>, <<>> >> >> }

InitAgain ==
    /\ pc = "find_basis"
    /\ FunIdle /\ S = <<>>
    /\ out = [result |-> NoResult, tidy |-> FALSE]
    /\ queue = <<>> /\ mem = <<>>
    /\ crn \in SeqsUpTo(DrvRxns, MaxDrv) \cup DrvCrns
    /\ optimize \in BOOLEAN
    /\ intermediates = {}
    /\ divs = <<>> /\ e = 0 /\ basis = <<>>
    /\ result = NoResult /\ mod = <<>> /\ nonwastes = {} /\ linear = FALSE
    /\ SearchIdle

CallAgain ==
    /\ pc = "returned"
    /\ result.status = "None"
    /\ out.result.status = "pending"
    /\ out' = [result |-> result, tidy |-> NotTidyFound]
    /\ crn' \in AgainCrns
    /\ pc' = "find_basis"
    /\ intermediates' = {}
    /\ divs' = <<>> /\ e' = 0 /\ basis' = <<>>
    /\ result' = NoResult /\ mod' = <<>> /\ nonwastes' = {} /\ linear' = FALSE
    /\ done' = 0 /\ ccheck' = <<>> /\ w_max' = 0 /\ i_max' = 0
    /\ ret' = <<>> /\ ebasis' = <<>> /\ pidx' = <<>>
    /\ UNCHANGED <<a, b, p, S0, S, k, queue, mem, optimize>>

NextAgain == Next \/ CallAgain

SpecAgain == InitAgain /\ [][NextAgain]_vars

\* two calls were rejected, one for a final state that is not tidy, the
\* other for a final state that is not regular
BothRejected ==
    /\ pc = "returned"
    /\ result.status = "None"
    /\ out.result.status = "None"
    /\ out.tidy # NotTidyFound

(***************************************************************************)
(* C14, as stated: when the computation is rejected, the value returned to *)
(* the caller distinguishes a tidiness violation from a regularity         *)
(* violation: a call rejected for the one and a call rejected for the      *)
(* other return different values.                                          *)
(***************************************************************************)
C14_RejectionsDiffer == BothRejected => result # out.result

C14_Witness == BothRejected /\ NotTidyFound /\ Len(crn) = 1

(***************************************************************************)
(* C15, as stated: a CRN (or module) with zero reactions is no work to do: *)
(* the computation returns the empty basis and never fails with the error  *)
(* of a maximum over nothing in the branching statistics, whether run with *)
(* or without module partitioning.                                         *)
(***************************************************************************)
C15_EmptyIsNoWork ==
    /\ pc = "raised" => result.status # "ValueError"
    /\ (crn = <<>> /\ pc \in {"returned", "raised"}) =>
           result = [status |-> "basis", basis |-> <<>>]

\* the CRN without reactions, run module by module, gave the empty basis
C15_Witness ==
    /\ crn = <<>>
    /\ optimize
    /\ pc = "returned"
    /\ result = [status |-> "basis", basis |-> <<>>]

(***************************************************************************)
(* The caller's lists across a call of a multiset/state operation.  a, b   *)
(* are the caller's state lists and S the caller's list of states; each    *)
(* action leaves in them what the call leaves in the caller's objects.     *)
(***************************************************************************)
FrameSpecies == {1, 2, 3}

InitFrame ==
    /\ pc = "frame"
    /\ a \in SeqsUpTo(FrameSpecies, MaxLen)
    /\ b \in SeqsUpTo(FrameSpecies, MaxLen)
    /\ S = <<a, b>>
    /\ p = <<>> /\ S0 = <<>> /\ k = 0
    /\ out = "none"
    /\ TidyIdle
    /\ DrvIdle

\* filter builds a new list (line 24)
FrameFormal ==
    /\ pc = "frame"
    /\ out' = formal(a, Formals)
    /\ pc' = "framed"
    /\ UNCHANGED <<a, b, p, S0, S, k, tidyVars, drvVars>>

\* filter builds a new list (line 28)
FrameIntermediate ==
    /\ pc = "frame"
    /\ out' = intermediate(a, Formals)
    /\ pc' = "framed"
    /\ UNCHANGED <<a, b, p, S0, S, k, tidyVars, drvVars>>

\* s = s[:] rebinds the local name to a copy before remove and += (line 32)
FrameNextState ==
    /\ pc = "frame"
    /\ \E rxn \in PathRxns : out' = next_state(a, rxn)
    /\ pc' = "framed"
    /\ UNCHANGED <<a, b, p, S0, S, k, tidyVars, drvVars>>

\* sorted(a), sorted(b) are new lists (lines 71-72)
FrameContained ==
    /\ pc = "frame"
    /\ out' = contained(a, b)
    /\ pc' = "framed"
    /\ UNCHANGED <<a, b, p, S0, S, k, tidyVars, drvVars>>

\* c = S[:] is a copy; remove and append act on c (line 76)
FrameFinalState ==
    /\ pc = "frame"
    /\ \E rxn \in PathRxns : out' = final_state(<<rxn>>, a)
    /\ pc' = "framed"
    /\ UNCHANGED <<a, b, p, S0, S, k, tidyVars, drvVars>>

\* a = a[:], b = b[:] are copies; b.remove acts on the copy (lines 105-106)
FrameSetminus ==
    /\ pc = "frame"
    /\ out' = setminus(a, b)
    /\ pc' = "framed"
    /\ UNCHANGED <<a, b, p, S0, S, k, tidyVars, drvVars>>

\* what remove_duplicates leaves in the caller's list: l.sort() sorts the
\* caller's object in place, l = l[1:] only rebinds the local name
remove_duplicates_leaves(d, l) ==
    IF Len(l) = 0 THEN l ELSE sorted_nested(d, l)

FrameRemoveDuplicates ==
    /\ pc = "frame"
    /\ out' = remove_duplicates(1, S)
    /\ S' = remove_duplicates_leaves(1, S)
    /\ pc' = "framed"
    /\ UNCHANGED <<a, b, p, S0, k, tidyVars, drvVars>>

NextFrame ==
    \/ FrameFormal
    \/ FrameIntermediate
    \/ FrameNextState
    \/ FrameContained
    \/ FrameFinalState
    \/ FrameSetminus
    \/ FrameRemoveDuplicates

SpecFrame == InitFrame /\ [][NextFrame]_vars

\* C16: no multiset/state operation (formal, intermediate, contained,
\* setminus, remove_duplicates, next_state, final_state) changes a list
\* passed to it: after the call the caller's lists hold the same elements
\* in the same order
C16_ArgumentsKept == [][a' = a /\ b' = b /\ S' = S]_vars

\* the six copying operations do keep the caller's lists
C16_CopiesKept ==
    [][(a' = a /\ b' = b /\ S' = S) \/ FrameRemoveDuplicates]_vars

\* remove_duplicates was called on a list that was not in sorted order and
\* left it sorted
C16_Witness ==
    /\ pc = "framed"
    /\ S = <<b, a>>
    /\ a # b
    /\ out = S

\* C17: once the abort flag is set during a pass, every later recursive
\* call returns at once; no signature is added to ret, no pathway to
\* ebasis, no final state goes through the tidiness check (ccheck), the
\* flag stays set, and enumerate_basis returns None
C17_AbortSticks ==
    /\ [][done = 1 => /\ done' = 1
                      /\ ret' = ret
                      /\ ebasis' = ebasis
                      /\ ccheck' = ccheck]_vars
    /\ [][(done = 1 /\ pc = "call") => (pc' = "return" /\ pidx' = pidx)]_vars
    /\ [][(done = 1 /\ pc = "exit") =>
              (pc' = "returned" /\ result' = [status |-> "None", basis |-> <<>>])]_vars
    /\ []((done = 1 /\ pc = "returned") => result.status = "None")

\* a call made after the flag was set has returned: the flag is set, the
\* call at pidx is back in its caller's loop, and its signature is not in
\* ret (the aborting call and every call that descended recorded theirs)
C17_Witness ==
    /\ done = 1
    /\ pc = "return"
    /\ pidx # <<>>
    /\ ~In(sig_p, ret)
    /\ ~Pruned

\* C18: the tidiness check ends on every call the search driver makes: the
\* intermediate-projected states reachable from the final state of a
\* pathway that passed the width bound are finitely many, so tidy returns
\* True or False and its search never has to be left unfinished
C18_TidyTerminates == pc # "cut_tidy"

\* I -> I + I alone, the reaction that makes the search of tidy grow
DoublingCrn == << << <<3>>, <<3, 3>> >> >>

\* under I -> I + I the queue of tidy always holds exactly one state, which
\* is not empty and one species longer after every pass of the while loop:
\* the queue never empties and the empty state is never dequeued
C18_QueueGrows ==
    /\ [][(crn = DoublingCrn /\ pc = "tidy_loop" /\ pc' = "tidy_loop"
             /\ Len(queue) = 1 /\ Head(queue) # <<>>
             /\ \A n \in 1..Len(Head(queue)) : Head(queue)[n] = 3)
          => (/\ Len(queue') = 1
              /\ Len(Head(queue')) = Len(Head(queue)) + 1
              /\ \A n \in 1..Len(Head(queue')) : Head(queue')[n] = 3)]_vars
    /\ [](crn = DoublingCrn /\ pc = "tidy_done" => ~In(3, S))

\* the driver handed tidy the final state I of the pathway A -> I, which
\* passed the width bound, in a CRN with I -> I + I; the search of tidy was
\* left at a state of more than MaxTidyLen species
C18_Witness ==
    /\ pc = "cut_tidy"
    /\ P = << << <<1>>, <<3>> >> >>
    /\ final_p = <<3>>
    /\ width(P) <= w_max
    /\ In(<< <<3>>, <<3, 3>> >>, mod)

\* the state of pathway q after its first n reactions, from its minimal
\* initial state
StateAfter(q, n) == final_state(SubSeq(q, 1, n), minimal_initial_state(q))

\* x repeated c times
Rep(x, c) == [n \in 1..c |-> x]

\* the formal content of the states after the last i reactions of q: of
\* each formal species as many copies as the state among them richest in it
FormalContent(q, i) ==
    LET most(X) == CHOOSE x \in X : \A y \in X : y <= x
        cnt(x) == most({Count(formal(StateAfter(q, n), Formals), x) :
                          n \in (Len(q) - i + 1)..Len(q)})
    IN  Rep(1, cnt(1)) \o Rep(2, cnt(2))

\* the formal species of every state after reactions m..n of q are within
\* q's minimal initial state
FormalKept(q, m, n) ==
    \A h \in m..n :
        SubBag(formal(StateAfter(q, h), Formals), minimal_initial_state(q))

\* the state before the last i reactions, less the reactants of the first
\* of them, holds no formal species
NoFormalLeft(q, i) ==
    \A x \in Formals :
        Count(StateAfter(q, Len(q) - i), x) <= Count(q[Len(q) - i + 1][1], x)

\* C19: regular_final_state(p, fs) contains the formal content accumulated
\* backward up to the cut i exactly when (a) every step from position i to
\* the end of the pathway (the last i reactions) keeps the formal species
\* of the state within the minimal initial state and (b) the state before
\* the suffix, less the reactants of the suffix's first reaction, holds no
\* formal species
C19_SuffixKept ==
    pc = "regular" =>
        /\ \A n \in 1..Len(out) :
              \E i \in 1..Len(p) : /\ out[n] = FormalContent(p, i)
                                   /\ FormalKept(p, Len(p) - i + 1, Len(p))
                                   /\ NoFormalLeft(p, i)
        /\ \A i \in 1..Len(p) :
              (FormalKept(p, Len(p) - i + 1, Len(p)) /\ NoFormalLeft(p, i))
                  => In(FormalContent(p, i), out)

(***************************************************************************)
(* C19, amended: regular_final_state(p, fs) contains the formal content    *)
(* accumulated backward up to the cut i exactly when (a) every step before *)
(* the suffix of the last i reactions (the first len(p) - i reactions)     *)
(* keeps the formal species of the state within the minimal initial state  *)
(* and (b) the state before the suffix, less the reactants of the suffix's *)
(* first reaction, holds no formal species.                                *)
(***************************************************************************)
C19_PrefixKept ==
    pc = "regular" =>
        /\ \A n \in 1..Len(out) :
              \E i \in 1..Len(p) : /\ out[n] = FormalContent(p, i)
                                   /\ FormalKept(p, 1, Len(p) - i)
                                   /\ NoFormalLeft(p, i)
        /\ \A i \in 1..Len(p) :
              (FormalKept(p, 1, Len(p) - i) /\ NoFormalLeft(p, i))
                  => In(FormalContent(p, i), out)

\* a pathway with two valid cuts of different formal content and a step
\* after the first cut that brings up a formal species the initial state
\* does not hold
C19_Witness ==
    /\ pc = "regular"
    /\ Len(p) = 3
    /\ Len(out) >= 2
    /\ ~FormalKept(p, 1, Len(p))

\* mask m splits p into two non-empty sides whose minimal initial states
\* are entirely formal
ValidSplit(m) ==
    /\ Side(p, m, 1) # <<>>
    /\ Side(p, m, 2) # <<>>
    /\ OnlyFormal(minimal_initial_state(Side(p, m, 1)))
    /\ OnlyFormal(minimal_initial_state(Side(p, m, 2)))

\* C20: decompose(p, fs) loses no valid split: for every assignment of the
\* reactions of p to two order-preserving sub-pathways, both non-empty and
\* both with an entirely formal minimal initial state, the pair of their
\* final states is in the result, and the result lists no pair twice --
\* although the recursion gives up a branch as soon as a partial
\* sub-pathway has a non-formal minimal initial state
C20_DecomposeComplete ==
    pc = "decomposed" =>
        /\ \A m \in Masks(Len(p)) :
              ValidSplit(m) =>
                  In(<<final_state(Side(p, m, 1), minimal_initial_state(Side(p, m, 1))),
                       final_state(Side(p, m, 2), minimal_initial_state(Side(p, m, 2)))>>,
                     out)
        /\ \A n, h \in 1..Len(out) : n # h => out[n] # out[h]

\* a pathway of three reactions with valid splits of different pairs, more
\* valid splits than pairs (two splits give the same pair), and a split
\* into two non-empty sides that the recursion gave up
C20_Witness ==
    /\ pc = "decomposed"
    /\ Len(p) = 3
    /\ Len(out) >= 2
    /\ Cardinality({m \in Masks(3) : ValidSplit(m)}) > Len(out)
    /\ \E m \in Masks(3) :
          /\ Side(p, m, 1) # <<>>
          /\ Side(p, m, 2) # <<>>
          /\ ~ValidSplit(m)

\* a step that starts a pass of the widening loop: the call of line 366
PassStarts == pc' = "call" /\ pidx' = <<>>

WidestState(q) ==
    LET sizes == {Len(StateAfter(q, n)) : n \in 0..Len(q)}
    IN  CHOOSE x \in sizes : \A y \in sizes : y <= x

\* some split of q into two non-empty sides with formal minimal initial
\* states leaves one side in an entirely formal final state
StronglyDecomposable(q) ==
    \E m \in Masks(Len(q)) :
        LET q1 == Side(q, m, 1)
            q2 == Side(q, m, 2)
        IN  /\ q1 # <<>> /\ q2 # <<>>
            /\ OnlyFormal(minimal_initial_state(q1))
            /\ OnlyFormal(minimal_initial_state(q2))
            /\ \/ OnlyFormal(final_state(q1, minimal_initial_state(q1)))
               \/ OnlyFormal(final_state(q2, minimal_initial_state(q2)))

\* no state of the replay of q holds more than one species of nonw
AtMostOneNonWaste(q, nonw) ==
    \A n \in 0..Len(q) :
        Cardinality({h \in 1..Len(StateAfter(q, n)) : StateAfter(q, n)[h] \in nonw}) <= 1

\* C22: in every state of a search pass with bounds (w_max, i_max), every
\* signature in ret belongs to a pathway of width at most w_max, whose
\* minimal initial state is entirely formal and of size at most i_max, and
\* none of whose decompositions has an all-formal side; when nonw is given
\* the pathway never has more than one non-waste species present
C22_RecordedWithinBounds ==
    /\ [][(ret' # ret /\ ret' # <<>>) =>
             /\ ret' = Append(ret, sig_p)
             /\ UNCHANGED <<w_max, i_max, mod, linear, nonwastes>>
             /\ WidestState(P) <= w_max
             /\ OnlyFormal(minimal_initial_state(P))
             /\ Len(minimal_initial_state(P)) <= i_max
             /\ ~StronglyDecomposable(P)
             /\ linear => AtMostOneNonWaste(P, nonwastes)]_vars
    /\ [][(pc \in {"call", "return"} /\ ret # <<>>) =>
             (ret' = <<>> \/ UNCHANGED <<w_max, i_max, mod, linear, nonwastes>>
                 \/ pc' \notin {"call", "return"})]_vars
    /\ [](pc \in {"call", "return"} =>
             \A n \in 1..Len(ret) :
                 /\ ret[n][3] <= w_max
                 /\ OnlyFormal(ret[n][1])
                 /\ Len(ret[n][1]) <= i_max
                 /\ \A h \in 1..Len(ret[n][5]) :
                       ~OnlyFormal(ret[n][5][h][1]) /\ ~OnlyFormal(ret[n][5][h][2]))

\* a pass with nonw given has recorded a pathway of two reactions that
\* reaches both bounds, while a sibling pathway was pruned
C22_Witness ==
    /\ pc = "return"
    /\ linear
    /\ Len(P) = 2
    /\ In(sig_p, ret)
    /\ w_p = w_max
    /\ Len(ret) >= 3

\* formal species x occurs in some state of the replay of q
Occurs(q, x) == \E n \in 0..Len(q) : In(x, StateAfter(q, n))

\* the largest number of copies of x that a state of the replay of q holds
MostCopies(q, x) ==
    LET copies == {Count(StateAfter(q, n), x) : n \in 0..Len(q)}
    IN  CHOOSE c \in copies : \A d \in copies : d <= c

\* C23: formal_closure(p, fs) is the sorted, duplicate-free collection of
\* exactly the formal species that occur in at least one state of the
\* replay of p from its minimal initial state (initial state included):
\* each such species once, however many copies a state holds
C23_ClosureIsSet ==
    pc = "closure" =>
        out = Rep(1, IF Occurs(p, 1) THEN 1 ELSE 0)
                  \o Rep(2, IF Occurs(p, 2) THEN 1 ELSE 0)

(***************************************************************************)
(* C23, amended: formal_closure(p, fs) is the sorted multiset that holds,  *)
(* of each formal species, as many copies as the state richest in it among *)
(* the states of the replay of p from its minimal initial state (initial   *)
(* state included): a species occurs in it exactly if it occurs in some    *)
(* state, and with the largest multiplicity any one state has of it.       *)
(***************************************************************************)
C23_ClosureIsLeastCover ==
    pc = "closure" =>
        /\ out = Rep(1, MostCopies(p, 1)) \o Rep(2, MostCopies(p, 2))
        /\ \A x \in Formals : In(x, out) <=> Occurs(p, x)

\* the closure holds two copies of one formal species and one of the other,
\* and a formal species of the initial state that the final state lacks
C23_Witness ==
    /\ pc = "closure"
    /\ Len(p) = 3
    /\ Len(out) = 3
    /\ In(1, out) /\ In(2, out)
    /\ ~In(1, StateAfter(p, Len(p)))

(***************************************************************************)
(* Two module searches on the globals of the source.  ret, ccheck, ebasis  *)
(* and done are module-level names (global statements of lines 200, 354),  *)
(* so two calls of enumerate_basis running in one interpreter work on the  *)
(* same four objects; w_max, i_max, p, crn and nonw are locals of a call.  *)
(* The locals of the search that is running are in the variables of the    *)
(* sequential model, those of the other search are parked in out; a        *)
(* control switch swaps them.  Each module is first searched alone (k = 0, *)
(* k = 1), then the two searches run interleaved (k = 2).                  *)
(***************************************************************************)
Locals(c, m, w, i, x, l, n) ==
    [pc |-> c, mod |-> m, w_max |-> w, i_max |-> i, pidx |-> x,
     linear |-> l, nonwastes |-> n]

NoLocals(c) == Locals(c, <<>>, 0, 0, <<>>, FALSE, {})

\* the locals a search of module m starts with (lines 485-499)
StartLocals(m) ==
    Locals("enumerate_basis", m, 0, 0, <<>>,
           linear_of(m, nonwastes_of(m, intermediates)),
           nonwastes_of(m, intermediates))

\* lines 388-414: what enumerate_basis returns when its loop has ended
Verdict ==
    IF done = 1 THEN [status |-> "None", basis |-> <<>>]
    ELSE [status |-> "basis", basis |-> fbasis_raw_of(ebasis)]

\* CRNs of two modules:  {A -> B} with {I -> (nothing)}, with {A -> I}, with
\* the growth CRN and with the irregular CRN;  {A -> J, J -> B} with
\* {A -> I, I -> I + I} and with {A -> I, I -> B}
ParCrns ==
    { << << <<1>>, <<2>> >>, << <<3>>, <<>> >> >>,
      << << <<1>>, <<2>> >>, << <<1>>, <<3>> >> >>,
      << << <<1>>, <<2>> >>, << <<1>>, <<3>> >>, << <<3>>, <<3, 3>> >>, << <<3>>, <<>> >> >>,
      << << <<1>>, <<2>> >>, << <<1>>, <<2, 3>> >>, << <<3>>, <<>> >>, << <<2, 3>>, <<>> >> >>,
      << << <<1>>, <<4>> >>, << <<4>>, <<2>> >>, << <<1>>, <<3>> >>, << <<3>>, <<3, 3>> >> >>,
      << << <<1>>, <<4>> >>, << <<4>>, <<2>> >>, << <<1>>, <<3>> >>, << <<3>>, <<2>> >> >> }

InitPar ==
    /\ crn \in ParCrns
    /\ intermediates = SpeciesOf(crn) \ Formals
    /\ divs \in Orders(find_modules(crn, intermediates))
    /\ Len(divs) = 2
    /\ e = 1
    /\ k = 0
    /\ pc = "enumerate_basis"
    /\ mod = divs[1]
    /\ nonwastes = nonwastes_of(divs[1], intermediates)
    /\ linear = linear_of(divs[1], nonwastes)
    /\ a = <<>>
    /\ b = <<NoResult, NoResult>>
    /\ out = NoLocals("idle")
    /\ p = <<>> /\ S0 = <<>> /\ S = <<>>
    /\ queue = <<>> /\ mem = <<>>
    /\ optimize = TRUE /\ basis = <<>> /\ result = NoResult
    /\ SearchIdle

\* the running search takes over the locals in x
Resume(x) ==
    /\ pc' = x.pc
    /\ mod' = x.mod
    /\ w_max' = x.w_max
    /\ i_max' = x.i_max
    /\ pidx' = x.pidx
    /\ linear' = x.linear
    /\ nonwastes' = x.nonwastes

\* a search run alone has ended: its verdict is kept and the next run starts
ParAloneExit ==
    /\ pc = "exit"
    /\ k \in {0, 1}
    /\ a' = Append(a, Verdict)
    /\ k' = k + 1
    /\ e' = IF k = 0 THEN 2 ELSE 1
    /\ Resume(StartLocals(divs[e']))
    /\ out' = IF k = 0 THEN out ELSE StartLocals(divs[2])
    /\ UNCHANGED <<b, p, S0, S, tidyVars, optimize, intermediates, divs, basis,
                   result, done, ccheck, ret, ebasis>>

\* control passes from the running search to the other one
ParSwitch ==
    /\ k = 2
    /\ pc \in {"enumerate_basis", "call", "return", "exit"}
    /\ out.pc \in {"enumerate_basis", "call", "return", "exit"}
    /\ out' = Locals(pc, mod, w_max, i_max, pidx, linear, nonwastes)
    /\ Resume(out)
    /\ e' = 3 - e
    /\ UNCHANGED <<a, b, p, S0, S, k, tidyVars, optimize, intermediates, divs,
                   basis, result, done, ccheck, ret, ebasis>>

\* one of the interleaved searches has ended: its verdict is kept; the other
\* search goes on, or both have ended
ParExit ==
    /\ k = 2
    /\ pc = "exit"
    /\ b' = [b EXCEPT ![e] = Verdict]
    /\ IF out.pc = "finished"
       THEN /\ pc' = "joined"
            /\ UNCHANGED <<out, e, mod, w_max, i_max, pidx, linear, nonwastes>>
       ELSE /\ Resume(out)
            /\ out' = NoLocals("finished")
            /\ e' = 3 - e
    /\ UNCHANGED <<a, p, S0, S, k, tidyVars, optimize, intermediates, divs,
                   basis, result, done, ccheck, ret, ebasis>>

NextPar ==
    \/ EnumerateBasisStart
    \/ EPDone \/ EPPrune \/ EPNotTidy \/ EPTidyCut \/ EPNotRegular \/ EPDescend
    \/ EPNextReaction \/ EPLoopEnd
    \/ PassFixpoint \/ PassWiden \/ PassCut \/ PassAborted
    \/ ParAloneExit \/ ParSwitch \/ ParExit

SpecPar == InitPar /\ [][NextPar]_vars

\* neither module is rejected when it is searched alone, so no search has
\* a reason to cancel the other
BothAcceptedAlone == Len(a) = 2 /\ a[1].status = "basis" /\ a[2].status = "basis"

\* C24: two module searches share no mutable search state other than the
\* abort flag (ret, ccheck and ebasis belong to one module's search), so
\* interleaving their steps gives each module the verdict and the basis
\* it gets when it is searched alone
C24_InterleavingHarmless == (pc = "joined" /\ BothAcceptedAlone) => b = a

\* both interleaved searches ended; the two modules are accepted when
\* searched alone, and one of them came out with another verdict or basis
C24_Witness ==
    /\ pc = "joined"
    /\ BothAcceptedAlone
    /\ b # a

(***************************************************************************)
(* enumerate_basis on a module of linear structure, first with nonw = the  *)
(* module's non-waste set (k = 0), then with nonw = None (k = 1).          *)
(***************************************************************************)
\* A -> A + I, I -> B;  A -> I, I -> B;  A + A -> I, A -> I, I -> B;
\* A -> I, I -> I + J;  A -> I, I -> I + B, I -> (nothing);
\* A -> B + I, I -> (nothing), B + I -> (nothing)
LinMods ==
    { << << <<1>>, <<1, 3>> >>, << <<3>>, <<2>> >> >>,
      << << <<1>>, <<3>> >>, << <<3>>, <<2>> >> >>,
      << << <<1, 1>>, <<3>> >>, << <<1>>, <<3>> >>, << <<3>>, <<2>> >> >>,
      << << <<1>>, <<3>> >>, << <<3>>, <<3, 4>> >> >>,
      << << <<1>>, <<3>> >>, << <<3>>, <<3, 2>> >>, << <<3>>, <<>> >> >>,
      << << <<1>>, <<2, 3>> >>, << <<3>>, <<>> >>, << <<2, 3>>, <<>> >> >> }

InitLin ==
    /\ pc = "enumerate_basis"
    /\ mod \in {m \in (SeqsUpTo(DrvRxns, MaxDrv) \ {<<>>}) \cup LinMods :
                  linear_of(m, nonwastes_of(m, SpeciesOf(m) \ Formals))}
    /\ crn = mod
    /\ intermediates = SpeciesOf(mod) \ Formals
    /\ nonwastes = nonwastes_of(mod, intermediates)
    /\ linear = TRUE
    /\ k = 0
    /\ out = NoResult
    /\ FunIdle /\ S = <<>>
    /\ queue = <<>> /\ mem = <<>>
    /\ optimize = TRUE /\ divs = <<>> /\ e = 0 /\ basis = <<>> /\ result = NoResult
    /\ SearchIdle

\* the run with nonw has ended: its verdict is kept, the run without starts
LinRerun ==
    /\ pc = "exit"
    /\ k = 0
    /\ out' = Verdict
    /\ k' = 1
    /\ linear' = FALSE
    /\ pc' = "enumerate_basis"
    /\ UNCHANGED <<a, b, p, S0, S, tidyVars, optimize, intermediates, divs, e, basis,
                   result, mod, nonwastes, searchVars>>

\* the run without nonw has ended
LinExit ==
    /\ pc = "exit"
    /\ k = 1
    /\ result' = Verdict
    /\ pc' = "returned"
    /\ UNCHANGED <<funVars, tidyVars, optimize, intermediates, divs, e, basis,
                   mod, nonwastes, linear, searchVars>>

NextLin ==
    \/ EnumerateBasisStart
    \/ EPDone \/ EPPrune \/ EPNotTidy \/ EPTidyCut \/ EPNotRegular \/ EPDescend
    \/ EPNextReaction \/ EPLoopEnd
    \/ PassFixpoint \/ PassWiden \/ PassCut \/ PassAborted
    \/ LinRerun \/ LinExit

SpecLin == InitLin /\ [][NextLin]_vars

\* C25: for a module in which every reaction has at most one non-waste
\* intermediate among its reactants and at most one among its products,
\* enumerate_basis with nonw = the non-waste set gives the same verdict and
\* the same formal basis as enumerate_basis with nonw = None
C25_LinearPruningUnobservable == pc = "returned" => result = out

\* a pathway that passed the width, formal and size tests is cut by
\* linearcheck alone (it has no strong decomposition) in a run with nonw
LinearCheckDecides ==
    /\ pc = "call"
    /\ done = 0
    /\ linear
    /\ linearcheck(P, initial_p, nonwastes) = "False"
    /\ w_p <= w_max
    /\ formal_state(initial_p, Formals)
    /\ Len(initial_p) <= i_max
    /\ ~StronglyDecomposable(P)
    /\ ~In(sig_p, ret)

\* both runs ended with a non-empty basis, and under the bounds they ended
\* with the module has a pathway of two reactions that only linearcheck
\* cuts: it passes the width, formal and size tests and has no strong
\* decomposition
C25_Witness ==
    /\ pc = "returned"
    /\ result.status = "basis"
    /\ result.basis # <<>>
    /\ \E n, h \in 1..Len(mod) :
          LET q == <<mod[n], mod[h]>>
          IN  /\ linearcheck(q, minimal_initial_state(q), nonwastes) = "False"
              /\ width(q) <= w_max
              /\ formal_state(minimal_initial_state(q), Formals)
              /\ Len(minimal_initial_state(q)) <= i_max
              /\ ~StronglyDecomposable(q)

\* q is a proper prefix of r
ProperPrefix(q, r) == Len(q) < Len(r) /\ SubSeq(r, 1, Len(q)) = q

\* C26: every one-reaction extension p + [r] of a pathway p of ebasis is
\* pruned before its signature is recorded -- by the width bound, by the
\* formal or size test on its minimal initial state, or by the strong
\* decomposition test -- so no pathway of ebasis is a proper prefix of
\* another pathway of ebasis
C26_BasisPathwaysEnd ==
    /\ [](\A n, h \in 1..Len(ebasis) : ~ProperPrefix(ebasis[n], ebasis[h]))
    /\ []((pc = "call" /\ Len(P) > 0 /\ In(SubSeq(P, 1, Len(P) - 1), ebasis)) =>
              \/ WidestState(P) > w_max
              \/ ~OnlyFormal(minimal_initial_state(P))
              \/ Len(minimal_initial_state(P)) > i_max
              \/ StronglyDecomposable(P))
    /\ [][(pc = "call" /\ Len(P) > 0 /\ In(SubSeq(P, 1, Len(P) - 1), ebasis)) =>
              (pc' = "return" /\ ret' = ret /\ ebasis' = ebasis)]_vars

\* the call for an extension of a pathway of ebasis is being made in a pass
\* whose bounds the extension keeps: it is the strong decomposition test
\* that cuts it
C26_Witness ==
    /\ pc = "call"
    /\ done = 0
    /\ Len(P) >= 2
    /\ In(SubSeq(P, 1, Len(P) - 1), ebasis)
    /\ w_p <= w_max
    /\ formal_state(initial_p, Formals)
    /\ Len(initial_p) <= i_max

(***************************************************************************)
(* enumerate_basis on two orderings of one CRN: first on crn as listed     *)
(* (k = 0), then on a reordering of it (k = 1), both with nonw = None.     *)
(***************************************************************************)
\* A -> I, A -> J, J -> J + J:  I stays for ever, J can only multiply
PermCrns ==
    { << << <<1>>, <<3>> >>, << <<1>>, <<4>> >>, << <<4>>, <<4, 4>> >> >> }

InitPerm ==
    /\ pc = "enumerate_basis"
    /\ crn \in (SeqsUpTo(DrvRxns, MaxDrv) \ {<<>>}) \cup DrvCrns \cup PermCrns
    /\ mod = crn
    /\ intermediates = SpeciesOf(crn) \ Formals
    /\ nonwastes = {}
    /\ linear = FALSE
    /\ k = 0
    /\ out = NoResult
    /\ FunIdle /\ S = <<>>
    /\ queue = <<>> /\ mem = <<>>
    /\ optimize = FALSE /\ divs = <<>> /\ e = 0 /\ basis = <<>> /\ result = NoResult
    /\ SearchIdle

\* the run on crn as listed has ended: its verdict is kept and the run on
\* another ordering starts
PermRerun ==
    /\ pc = "exit"
    /\ k = 0
    /\ out' = Verdict
    /\ k' = 1
    /\ mod' \in Orders(crn) \ {crn}
    /\ pc' = "enumerate_basis"
    /\ UNCHANGED <<a, b, p, S0, S, tidyVars, optimize, intermediates, divs, e, basis,
                   result, nonwastes, linear, searchVars>>

\* the run on the other ordering has ended
PermExit ==
    /\ pc = "exit"
    /\ k = 1
    /\ result' = Verdict
    /\ pc' = "returned"
    /\ UNCHANGED <<funVars, tidyVars, optimize, intermediates, divs, e, basis,
                   mod, nonwastes, linear, searchVars>>

NextPerm ==
    \/ EnumerateBasisStart
    \/ EPDone \/ EPPrune \/ EPNotTidy \/ EPTidyCut \/ EPNotRegular \/ EPDescend
    \/ EPNextReaction \/ EPLoopEnd
    \/ PassFixpoint \/ PassWiden \/ PassCut \/ PassAborted
    \/ PermRerun \/ PermExit

SpecPerm == InitPerm /\ [][NextPerm]_vars

\* both orderings came to a verdict, and to the same one
SameOutcome ==
    /\ result.status = out.status
    /\ PairSet(result.basis) = PairSet(out.basis)

\* C27: the outcome does not depend on the order in which the reactions
\* are listed: when enumerate_basis comes to a verdict on one ordering of a
\* CRN it comes to a verdict on any other ordering (its search does not
\* get lost in a tidiness check), with the same verdict and the same set
\* of basis pairs
C27_OrderIrrelevant ==
    /\ k = 1 => pc # "cut_tidy"
    /\ pc = "returned" => SameOutcome

\* whenever both orderings come to a verdict, it is the same verdict and
\* the same set of basis pairs
C27_SameWhenBothEnd == pc = "returned" => SameOutcome

\* the CRN as listed was rejected at a final state that is not tidy, and on
\* another ordering of it the search has gone into a tidiness check that
\* leaves every bound
C27_Witness ==
    /\ k = 1
    /\ pc = "cut_tidy"
    /\ out.status = "None"
    /\ mod # crn

====
